---- MODULE Spec2Model ----
(***************************************************************************)
(* A model of test-runner (src/src/main.rs): main runs `cargo test` once   *)
(* per configured suite, classifies the JSON event lines of its output,    *)
(* spreads the suite's points over the tests found and collects them in a  *)
(* Results value.                                                          *)
(*                                                                         *)
(* Text is a sequence of Unicode code points (Rust chars).  An f64 is a    *)
(* rational [n |-> numerator, d |-> denominator], d > 0.                   *)
(***************************************************************************)
EXTENDS Integers, Sequences, FiniteSets

VARIABLES
    settings,   \* main: the Settings read from the settings file
    results,    \* main: `results`, the Results being built
    next,       \* main: position of the `for suite in settings.suites` loop
    pc,         \* main: "run", "done" (report printed) or "panicked"
    log,        \* what each cargo_test call so far got from Command::output()
    arg,        \* argument of a single call of unescape / filter_test_output
    ret         \* result of that call ("idle" before the call)

vars == <<settings, results, next, pc, log, arg, ret>>

---------------------------------------------------------------------------
(* Bounds of the checked instances. *)

MaxSuites == 3      \* suites in a configuration (Spec)
MaxLines == 3       \* lines in one suite's output (SpecSuite)
MaxPoints == 50     \* suite budgets 0.00 .. 0.50 in hundredths (SpecSuite)
MaxEscLen == 6      \* characters of an unescape argument (SpecUnescape)

---------------------------------------------------------------------------
(* Characters and strings. *)

\* The characters the code names, as code points.
Ch == [backslash |-> 92, quote |-> 34, dot |-> 46, space |-> 32, dash |-> 45,
       zero |-> 48, u |-> 117, b |-> 98, f |-> 102, n |-> 110, r |-> 114,
       t |-> 116, BS |-> 8, FF |-> 12, LF |-> 10, CR |-> 13, TAB |-> 9]

\* The string literals of the code.
Lit == [test    |-> <<116, 101, 115, 116>>,
        started |-> <<115, 116, 97, 114, 116, 101, 100>>,
        ok      |-> <<111, 107>>,
        sep     |-> <<32, 45, 32>>,            \* " - "
        dot     |-> <<46>>,                    \* "."
        null    |-> <<110, 117, 108, 108>>]    \* how serde_json prints Null

\* Other texts used as inputs.
Txt == [suite  |-> <<115, 117, 105, 116, 101>>,
        failed |-> <<102, 97, 105, 108, 101, 100>>,
        weird  |-> <<63>>,                     \* "?"
        t1     |-> <<116, 49>>,                \* "t1"
        t2     |-> <<116, 50>>,                \* "t2"
        t3     |-> <<116, 51>>,                \* "t3"
        junk   |-> <<32, 32>>,                 \* cargo's own non-JSON chatter
        qn     |-> <<97, 34, 98>>,             \* a"b
        boom   |-> <<97, 10, 98>>,             \* a<LF>b
        path   |-> <<99, 92, 100, 1>>,         \* c\d<U+0001>
        enoent |-> <<69, 50>>,                 \* "E2"
        eacces |-> <<69, 49, 51>>,             \* "E13"
        unit   |-> <<85>>,                     \* "U"
        three  |-> <<51>>,                     \* "3"
        ten    |-> <<49, 48>>]                 \* "10"

\* u32::to_string / usize::to_string: decimal digits, no sign, no padding.
RECURSIVE to_string(_)
to_string(k) ==
    IF k < 10 THEN <<Ch.zero + k>>
    ELSE Append(to_string(k \div 10), Ch.zero + (k % 10))

\* str::replace(from, "") for a one-character pattern.
RECURSIVE replace(_, _)
replace(s, from) ==
    IF s = <<>> THEN <<>>
    ELSE IF Head(s) = from THEN replace(Tail(s), from)
    ELSE <<Head(s)>> \o replace(Tail(s), from)

---------------------------------------------------------------------------
(* serde_json values.  A Value is Null, a String or a Number; a parsed     *)
(* line is modelled by the four members the code reads, a member that is   *)
(* missing (or any member of a line that is no JSON object) being Null,    *)
(* which is what serde_json's Index gives for it.                          *)

Null == [t |-> "null", s |-> <<>>]
String(s) == [t |-> "str", s |-> s]
Number(digits) == [t |-> "num", s |-> digits]

\* Value == &str: true only of a String holding exactly that text.
ValueEq(v, str) == v.t = "str" /\ v.s = str

\* A hexadecimal digit as serde_json writes it (lower case).
HexDigit(d) == IF d < 10 THEN Ch.zero + d ELSE 87 + d

\* serde_json's escaping of one character of a String.
EscapeChar(c) ==
    IF c = Ch.quote THEN <<Ch.backslash, Ch.quote>>
    ELSE IF c = Ch.backslash THEN <<Ch.backslash, Ch.backslash>>
    ELSE IF c = Ch.BS THEN <<Ch.backslash, Ch.b>>
    ELSE IF c = Ch.FF THEN <<Ch.backslash, Ch.f>>
    ELSE IF c = Ch.LF THEN <<Ch.backslash, Ch.n>>
    ELSE IF c = Ch.CR THEN <<Ch.backslash, Ch.r>>
    ELSE IF c = Ch.TAB THEN <<Ch.backslash, Ch.t>>
    ELSE IF c < 32 THEN <<Ch.backslash, Ch.u, Ch.zero, Ch.zero,
                          HexDigit(c \div 16), HexDigit(c % 16)>>
    ELSE <<c>>

RECURSIVE EscapeStr(_)
EscapeStr(s) ==
    IF s = <<>> THEN <<>> ELSE EscapeChar(Head(s)) \o EscapeStr(Tail(s))

\* Value::to_string(): the value as compact JSON text.
ValueToString(v) ==
    IF v.t = "null" THEN Lit.null
    ELSE IF v.t = "str" THEN <<Ch.quote>> \o EscapeStr(v.s) \o <<Ch.quote>>
    ELSE v.s

---------------------------------------------------------------------------
(* unescape (main.rs 192-217).  The result is [panic, s]: panic is TRUE    *)
(* when the call panics, and else s is the String returned.                *)

Panicked == [panic |-> TRUE, s |-> <<>>]
Returned(s) == [panic |-> FALSE, s |-> s]

\* char::to_digit(16): the digit's value, or -1 for None.
to_digit(c) ==
    IF c \in 48..57 THEN c - 48
    ELSE IF c \in 97..102 THEN c - 87
    ELSE IF c \in 65..70 THEN c - 55
    ELSE -1

\* fold(0, |acc, c| acc * 16 + c.to_digit(16).unwrap()) over valid digits.
RECURSIVE fold16(_, _)
fold16(acc, cs) ==
    IF cs = <<>> THEN acc ELSE fold16(acc * 16 + to_digit(Head(cs)), Tail(cs))

\* std::char::from_u32: Some(char) unless a surrogate or beyond U+10FFFF.
from_u32_is_some(value) == ~(value \in 55296..57343) /\ value <= 1114111

\* The `while let Some(ch) = chars.next()` loop from position i on.
RECURSIVE unescape_loop(_, _, _)
unescape_loop(s, i, result) ==
    IF i > Len(s) THEN Returned(result)
    ELSE IF s[i] # Ch.backslash THEN unescape_loop(s, i + 1, Append(result, s[i]))
    ELSE IF i + 1 > Len(s) THEN Panicked          \* `_ => panic!("Malformed escape")`
    ELSE LET e == s[i + 1] IN
        IF e = Ch.u THEN
            \* chars.by_ref().take(4): the next four characters, or fewer at the end
            LET last == IF i + 5 > Len(s) THEN Len(s) ELSE i + 5
                taken == SubSeq(s, i + 2, last)
            IN  IF \E k \in 1..Len(taken) : to_digit(taken[k]) = -1
                THEN Panicked                     \* to_digit(16).unwrap() on None
                ELSE IF ~from_u32_is_some(fold16(0, taken))
                THEN Panicked                     \* from_u32(value).unwrap() on None
                ELSE unescape_loop(s, last + 1, Append(result, fold16(0, taken)))
        ELSE IF e = Ch.b THEN unescape_loop(s, i + 2, Append(result, Ch.BS))
        ELSE IF e = Ch.f THEN unescape_loop(s, i + 2, Append(result, Ch.FF))
        ELSE IF e = Ch.n THEN unescape_loop(s, i + 2, Append(result, Ch.LF))
        ELSE IF e = Ch.r THEN unescape_loop(s, i + 2, Append(result, Ch.CR))
        ELSE IF e = Ch.t THEN unescape_loop(s, i + 2, Append(result, Ch.TAB))
        ELSE unescape_loop(s, i + 2, Append(result, e))

unescape(s) == unescape_loop(s, 1, <<>>)

---------------------------------------------------------------------------
(* f64 values.  The model computes exactly; where the exact value of       *)
(* input * 100.0 lies halfway between two integers, the double the code    *)
(* holds is either that half or a neighbour just below it in magnitude    *)
(* (0.29 / 2.0 * 100.0 is 14.499999999999998), which `below` says.         *)

F64(n, d) == [n |-> n, d |-> d]
Abs(x) == IF x < 0 THEN -x ELSE x
Sign(x) == IF x < 0 THEN -1 ELSE 1

f64_mul(a, b) == F64(a.n * b.n, a.d * b.d)
f64_div(a, b) == F64(a.n * b.d * Sign(b.n), a.d * Abs(b.n))
f64_eq(a, b) == a.n * b.d = b.n * a.d

\* Mutant of f64_round: the fraction is cut off (`as i64` for round()).
f64_round_trunc(n, d, below) == Sign(n) * (Abs(n) \div d)

\* f64::round of n/d: the nearest integer, a half going away from zero.
f64_round(n, d, below) ==
    LET fl == Abs(n) \div d
        rem == Abs(n) % d
        mag == IF 2 * rem < d THEN fl
               ELSE IF 2 * rem > d THEN fl + 1
               ELSE IF below THEN fl ELSE fl + 1
    IN  Sign(n) * mag

\* round (main.rs 97-99): (input * 100.0).round() / 100.0
round(input, below) == F64(f64_round(input.n * 100, input.d, below), 100)

---------------------------------------------------------------------------
(* Test and Results (main.rs 66-114). *)

\* Test::new
Test_new(number, name, score, output) ==
    [number |-> number, name |-> name, score |-> score, output |-> output,
     max_score |-> F64(1, 1)]

\* Mutant of scale: max_score is left at the 1.0 Test::new gave it.
scale_keeps_max(self, factor, below) ==
    [number |-> self.number,
     name |-> self.name,
     score |-> round(f64_mul(self.score, factor), below),
     max_score |-> round(self.max_score, below),
     output |-> self.output]

\* Test::scale
scale(self, factor, below) ==
    [number |-> self.number,
     name |-> self.name,
     score |-> round(f64_mul(self.score, factor), below),
     max_score |-> round(f64_mul(self.max_score, factor), below),
     output |-> self.output]

\* Results::new
Results_new == [tests |-> <<>>, output |-> <<>>]

---------------------------------------------------------------------------
(* filter_test_output (main.rs 174-186).  The result is [panic, some,      *)
(* test]: panic when unescape panics, else None (some = FALSE) or          *)
(* Some(test).                                                             *)

None == [panic |-> FALSE, some |-> FALSE, test |-> <<>>]
Some(test) == [panic |-> FALSE, some |-> TRUE, test |-> test]
FilterPanicked == [panic |-> TRUE, some |-> FALSE, test |-> <<>>]

\* let output = if passed { String::from("") } else { unescape(...) };
test_output(line, pass) ==
    IF pass THEN Returned(<<>>) ELSE unescape(ValueToString(line.stdout))

\* Mutant of passed: everything but "failed" passes.
passed_unless_failed(line) == ~ValueEq(line.event, Txt.failed)

\* let passed = line["event"] == "ok";
passed(line) == ValueEq(line.event, Lit.ok)

filter_test_output(line, number, prefix) ==
    IF ~(ValueEq(line.type, Lit.test) /\ ~ValueEq(line.event, Lit.started))
    THEN None
    ELSE LET score == IF passed(line) THEN F64(1, 1) ELSE F64(0, 1)
             name == prefix \o Lit.sep \o replace(ValueToString(line.name), Ch.quote)
             output == test_output(line, passed(line))
         IN  IF output.panic THEN FilterPanicked
             ELSE Some(Test_new(number, name, score, output.s))

---------------------------------------------------------------------------
(* cargo_test (main.rs 123-160) and output_to_json (main.rs 162-172).      *)
(* What Command::output() gives is [ok, lines, err]: Err(err) when ok is   *)
(* FALSE, and else the stdout of the run, split at "\n".  A line is        *)
(* [parses, value]: whether serde_json::from_str accepts it, and the       *)
(* Value it then gives.                                                    *)

Ok(lines) == [ok |-> TRUE, lines |-> lines, err |-> <<>>]
Err(err) == [ok |-> FALSE, lines |-> <<>>, err |-> err]

\* output_to_json: the Values of the lines that parse, in order.
output_to_json(output) == SelectSeq(output.lines, LAMBDA l : l.parses)

\* Mutant of batch_loop: count goes up for every parsed line.
RECURSIVE batch_loop_counts_lines(_, _, _, _, _)
batch_loop_counts_lines(suite, json, j, batch, count) ==
    IF j > Len(json) THEN [panic |-> FALSE, batch |-> batch]
    ELSE LET number == suite.number \o Lit.dot \o to_string(count)
             test == filter_test_output(json[j].value, number, suite.name)
         IN  IF test.panic THEN [panic |-> TRUE, batch |-> batch]
             ELSE IF test.some
             THEN batch_loop_counts_lines(suite, json, j + 1,
                                          Append(batch, test.test), count + 1)
             ELSE batch_loop_counts_lines(suite, json, j + 1, batch, count + 1)

\* The `for line in output_to_json(&output)` loop of cargo_test from line j
\* on: [panic, batch].
RECURSIVE batch_loop(_, _, _, _, _)
batch_loop(suite, json, j, batch, count) ==
    IF j > Len(json) THEN [panic |-> FALSE, batch |-> batch]
    ELSE LET number == suite.number \o Lit.dot \o to_string(count)
             test == filter_test_output(json[j].value, number, suite.name)
         IN  IF test.panic THEN [panic |-> TRUE, batch |-> batch]
             ELSE IF test.some
             THEN batch_loop(suite, json, j + 1, Append(batch, test.test), count + 1)
             ELSE batch_loop(suite, json, j + 1, batch, count)

\* Mutant of push_scaled: the batch goes in front (insert(0, ..) for push).
push_scaled_front(tests, batch, value_scale, below) ==
    [k \in 1..Len(batch) |-> scale(batch[k], value_scale, below)] \o tests

\* `for test in batch { results.tests.push(test.scale(value_scale)); }`
push_scaled(tests, batch, value_scale, below) ==
    tests \o [k \in 1..Len(batch) |-> scale(batch[k], value_scale, below)]

\* Mutant of allocate: a suite without tests is reported as an error.
allocate_zero_is_error(res, suite, batch, below) ==
    IF Len(batch) > 0
    THEN LET value_scale == f64_div(suite.points, F64(Len(batch), 1))
         IN  [res EXCEPT !.tests = push_scaled(res.tests, batch, value_scale, below)]
    ELSE [res EXCEPT !.output = suite.name]

\* `if batch.len() > 0 { ... }`: the points spread over the batch.
allocate(res, suite, batch, below) ==
    IF Len(batch) > 0
    THEN LET value_scale == f64_div(suite.points, F64(Len(batch), 1))
         IN  [res EXCEPT !.tests = push_scaled(res.tests, batch, value_scale, below)]
    ELSE res

\* Mutant of record_error: the Results are started over with the message.
record_error_clears(res, err) == [tests |-> <<>>, output |-> err]

\* Mutant of record_error: the message is added to what is there (push_str).
record_error_appends(res, err) == [res EXCEPT !.output = res.output \o err]

\* `Err(err) => { results.output = format!("{}", err); }`
record_error(res, err) == [res EXCEPT !.output = err]

\* cargo_test: [panic, results], results being the Results it leaves.
cargo_test(res, suite, output, below) ==
    IF output.ok
    THEN LET b == batch_loop(suite, output_to_json(output), 1, <<>>, 1)
         IN  IF b.panic THEN [panic |-> TRUE, results |-> res]
             ELSE [panic |-> FALSE, results |-> allocate(res, suite, b.batch, below)]
    ELSE [panic |-> FALSE, results |-> record_error(res, output.err)]

---------------------------------------------------------------------------
(* main (main.rs 15-35): one cargo_test call per suite, in order, then the *)
(* report is printed.  A panic ends the process.                           *)

\* `for suite in settings.suites` has a suite left.
Looping == pc = "run" /\ next <= Len(settings.suites)

\* One iteration of the loop, Command::output() having given `output`.
Step(output, below) ==
    /\ LET r == cargo_test(results, settings.suites[next], output, below)
       IN  /\ results' = r.results
           /\ pc' = IF r.panic THEN "panicked" ELSE "run"
    /\ next' = next + 1
    /\ log' = Append(log, [output |-> output, below |-> below])
    /\ UNCHANGED <<settings, arg, ret>>

\* println!("{}", serialized) after the loop.
Serialize ==
    /\ pc = "run"
    /\ next > Len(settings.suites)
    /\ pc' = "done"
    /\ UNCHANGED <<settings, results, next, log, arg, ret>>

---------------------------------------------------------------------------
(* Inputs. *)

Suite(number, name, points, filter) ==
    [number |-> number, name |-> name, points |-> points, filter |-> filter]

Line(type, event, name, stdout) ==
    [parses |-> TRUE,
     value |-> [type |-> type, event |-> event, name |-> name, stdout |-> stdout]]

\* A line serde_json::from_str rejects (the empty last line, cargo's chatter).
JunkLine ==
    [parses |-> FALSE,
     value |-> [type |-> Null, event |-> Null, name |-> Null, stdout |-> Null]]

SuiteLine == Line(String(Txt.suite), String(Lit.ok), Null, Null)
StartedLine == Line(String(Lit.test), String(Lit.started), String(Txt.t1), Null)
OkLine == Line(String(Lit.test), String(Lit.ok), String(Txt.t1), Null)
FailedLine == Line(String(Lit.test), String(Txt.failed), String(Txt.t2), String(Txt.boom))
WeirdLine == Line(String(Lit.test), String(Txt.weird), String(Txt.t3), Null)

LineKinds == {JunkLine, SuiteLine, StartedLine, OkLine, FailedLine, WeirdLine}

\* The renderings of the io::Error of a failed spawn; none is empty.
Errors == {Txt.enoent, Txt.eacces}

SeqsUpTo(S, n) == UNION {[1..k -> S] : k \in 0..n}

\* Spec: a few outputs, over every configuration of up to MaxSuites suites.
SampleOutputs ==
    {Ok(<<>>),
     Ok(<<JunkLine, JunkLine>>),
     Ok(<<SuiteLine, StartedLine>>),
     Ok(<<StartedLine, OkLine, JunkLine, StartedLine, FailedLine, SuiteLine, JunkLine>>)}
    \cup {Err(e) : e \in Errors}

SuiteChoices ==
    {Suite(Txt.three, Txt.unit, F64(100, 100), Txt.t1),
     Suite(Txt.ten, Txt.suite, F64(29, 100), Txt.t2)}

\* SpecSuite: every output of up to MaxLines lines, for one suite.
AllOutputs == {Ok(l) : l \in SeqsUpTo(LineKinds, MaxLines)} \cup {Err(e) : e \in Errors}

PointsChoices ==
    {F64(p, 100) : p \in 0..MaxPoints} \cup {F64(1, 1), F64(2, 1), F64(-1, 2), F64(1, 8)}

Idle == "idle"

InitRun(suites) ==
    /\ settings = [target |-> Txt.path, suites |-> suites]
    /\ results = Results_new
    /\ next = 1
    /\ pc = "run"
    /\ log = <<>>
    /\ arg = Idle
    /\ ret = Idle

---------------------------------------------------------------------------
(* Spec: a whole run over several suites. *)

Init == \E suites \in SeqsUpTo(SuiteChoices, MaxSuites) : InitRun(suites)

RunSuite ==
    /\ Looping
    /\ \E output \in SampleOutputs, below \in BOOLEAN : Step(output, below)

Next == RunSuite \/ Serialize

Spec == Init /\ [][Next]_vars

(* SpecSuite: a run over one suite, with every output. *)

InitSuite ==
    \E points \in PointsChoices :
        InitRun(<<Suite(Txt.three, Txt.unit, points, Txt.t1)>>)

RunSuiteAny ==
    /\ Looping
    /\ \E output \in AllOutputs, below \in BOOLEAN : Step(output, below)

NextSuite == RunSuiteAny \/ Serialize

SpecSuite == InitSuite /\ [][NextSuite]_vars

---------------------------------------------------------------------------
(* SpecFilter: one call of filter_test_output on a parsed line. *)

TypeValues == {Null, String(Lit.test), String(Txt.suite), Number(Txt.three)}
EventValues == {Null, String(Lit.ok), String(Txt.failed), String(Lit.started),
                String(Txt.weird)}
NameValues == {Null, String(Txt.t1), String(Txt.qn)}
StdoutValues == {Null, String(<<>>), String(Txt.boom), String(Txt.qn),
                 String(Txt.path), Number(Txt.ten)}

InitCall(args) ==
    /\ settings = [target |-> Txt.path, suites |-> <<>>]
    /\ results = Results_new
    /\ next = 1
    /\ pc = "call"
    /\ log = <<>>
    /\ arg \in args
    /\ ret = Idle

InitFilter ==
    InitCall([type : TypeValues, event : EventValues, name : NameValues,
              stdout : StdoutValues])

CallFilter ==
    /\ pc = "call"
    /\ ret' = filter_test_output(arg, Txt.three \o Lit.dot \o to_string(1), Txt.unit)
    /\ pc' = "returned"
    /\ UNCHANGED <<settings, results, next, log, arg>>

SpecFilter == InitFilter /\ [][CallFilter]_vars

(* SpecUnescape: one call of unescape on a string. *)

\* backslash, u, n, 4, D, 8, g
EscAlphabet == {92, 117, 110, 52, 68, 56, 103}

InitUnescape == InitCall(SeqsUpTo(EscAlphabet, MaxEscLen))

CallUnescape ==
    /\ pc = "call"
    /\ ret' = unescape(arg)
    /\ pc' = "returned"
    /\ UNCHANGED <<settings, results, next, log, arg>>

SpecUnescape == InitUnescape /\ [][CallUnescape]_vars

---------------------------------------------------------------------------
(* What the claims speak of, read off the inputs recorded in log. *)

\* A line that is a completed-test record.
Completed(l) ==
    /\ l.parses
    /\ l.value.type = String(Lit.test)
    /\ l.value.event # String(Lit.started)

\* The completed-test records of an output, in the order of its lines.
Outcomes(output) == SelectSeq(output.lines, Completed)

\* The number of tests the k-th suite processed is to contribute.
Count(k) == IF log[k].output.ok THEN Len(Outcomes(log[k].output)) ELSE 0

\* The number of tests the suites before the k-th are to contribute.
RECURSIVE Offset(_)
Offset(k) == IF k <= 1 THEN 0 ELSE Offset(k - 1) + Count(k - 1)

IsPrefix(a, b) == Len(a) <= Len(b) /\ SubSeq(b, 1, Len(a)) = a

\* The rendering of the last failed invocation among the first k, "" if none.
RECURSIVE LastError(_)
LastError(k) ==
    IF k = 0 THEN <<>>
    ELSE IF ~log[k].output.ok THEN log[k].output.err
    ELSE LastError(k - 1)

\* k in decimal, for k < 100.
Decimal(k) ==
    IF k < 10 THEN <<Ch.zero + k>> ELSE <<Ch.zero + (k \div 10), Ch.zero + (k % 10)>>

\* P / N to two decimals: the hundredth nearest to it; of two equally near
\* the one away from zero, or the other when the double lies below the half.
Round2(P, N, below) ==
    LET X == 100 * P.n
        D == P.d * N
        q == X \div D
        near == {h \in (q - 1)..(q + 1) : 2 * Abs(h * D - X) <= D}
        h == CHOOSE c \in near :
                 \A o \in near : IF below THEN Abs(c) <= Abs(o) ELSE Abs(c) >= Abs(o)
    IN  F64(h, 100)

RECURSIVE SumMaxScore(_)
SumMaxScore(tests) ==
    IF tests = <<>> THEN 0 ELSE Head(tests).max_score.n + SumMaxScore(Tail(tests))

---------------------------------------------------------------------------
(* Claims checked under Spec. *)

\* C1: a suite whose invocation fails contributes no test and leaves
\* Report.output non-empty, and the suites after it are still run and their
\* tests appended: the report holds the tests of the other suites, each at
\* its place, and is printed only after every suite was invoked.
ThmC1 ==
    \A j \in 1..Len(log) :
        ~log[j].output.ok =>
            /\ results.output # <<>>
            /\ Len(results.tests) = Offset(Len(log) + 1)
            /\ \A k \in (j + 1)..Len(log) : \A m \in 1..Count(k) :
                   IsPrefix(settings.suites[k].name \o Lit.sep,
                            results.tests[Offset(k) + m].name)
            /\ (pc = "done" => Len(log) = Len(settings.suites))

\* Three suites, the second failing: the tests of suites 1 and 3 only.
WitC1 ==
    /\ pc = "done"
    /\ Len(log) = 3
    /\ log[1].output.ok /\ ~log[2].output.ok /\ log[3].output.ok
    /\ Count(1) > 0 /\ Count(3) > 0
    /\ Len(results.tests) = Count(1) + Count(3)
    /\ results.output # <<>>

\* C2: Report.output is empty while no invocation has failed, and else the
\* rendering of the most recent failure; successes leave it alone.
ThmC2 == results.output = LastError(Len(log))

\* Two different failures, then a success: the second message stands.
WitC2 ==
    /\ Len(log) = 3
    /\ ~log[1].output.ok /\ ~log[2].output.ok /\ log[3].output.ok
    /\ log[1].output.err # log[2].output.err
    /\ Count(3) > 0
    /\ results.output = log[2].output.err

\* Report.tests is the suites' batches one after the other, each batch in the
\* order of its outcome events.
TestsAreConcatenation ==
    /\ Len(results.tests) = Offset(Len(log) + 1)
    /\ \A k \in 1..Len(log) : \A m \in 1..Count(k) :
           /\ results.tests[Offset(k) + m].name =
                  settings.suites[k].name \o Lit.sep
                      \o Outcomes(log[k].output)[m].value.name.s
           /\ results.tests[Offset(k) + m].number =
                  settings.suites[k].number \o <<Ch.dot>> \o Decimal(m)

\* C3: every step leaves the old Report.tests as a prefix of the new, and
\* Report.tests is always the concatenation of the batches of the suites
\* processed, in configuration order and in event order within a suite.
ThmC3 == [][IsPrefix(results.tests, results'.tests) /\ TestsAreConcatenation']_vars

\* Two suites with two tests each around one with none.
WitC3 ==
    /\ pc = "done"
    /\ Len(log) = 3
    /\ Count(1) = 2 /\ Count(2) = 0 /\ Count(3) = 2
    /\ settings.suites[1] # settings.suites[3]
    /\ Len(results.tests) = 4
    /\ results.tests[1].name # results.tests[2].name

\* C7: a suite that runs but yields no completed-test outcome leaves the
\* whole Report as it was, whatever its points, and the run goes on.
ThmC7 ==
    [][(/\ Len(log') = Len(log) + 1
        /\ log'[Len(log')].output.ok
        /\ Outcomes(log'[Len(log')].output) = <<>>)
       => (results' = results /\ pc' = "run")]_vars

\* A suite whose output has records but no outcome, after one that gave tests.
WitC7 ==
    \E k \in 2..Len(log) :
        /\ log[k].output.ok
        /\ log[k].output.lines = <<SuiteLine, StartedLine>>
        /\ Count(k) = 0
        /\ Offset(k) > 0
        /\ Len(results.tests) = Offset(Len(log) + 1)
        /\ results.output = <<>>

---------------------------------------------------------------------------
(* Claims checked under SpecSuite. *)

\* C4: the N tests of suite s are numbered s.1 .. s.N in the order of their
\* outcome events; lines that do not parse and records that are no
\* completed-test events get no number and shift none.
ThmC4 ==
    (Len(log) = 1 /\ log[1].output.ok) =>
        /\ Len(results.tests) = Count(1)
        /\ \A k \in 1..Count(1) :
               results.tests[k].number =
                   settings.suites[1].number \o <<Ch.dot>> \o Decimal(k)

\* A record that is no outcome between two outcomes: the second is s.2.
WitC4 ==
    /\ Len(log) = 1
    /\ log[1].output.ok
    /\ Len(log[1].output.lines) = 3
    /\ log[1].output.lines[1] = OkLine
    /\ log[1].output.lines[2] \in {SuiteLine, StartedLine}
    /\ log[1].output.lines[3] = FailedLine
    /\ Len(results.tests) = 2
    /\ results.tests[2].number = <<51, 46, 50>>

\* C5: with budget P and N > 0 outcomes every test has max_score
\* round2(P / N), and score round2(P / N) if it passed and 0 if not; P = 2.0
\* with (pass, fail) gives (1.0, 1.0), (0.0, 1.0), and P = 1.0 with three
\* passes gives 0.33 and 0.33 each.
ThmC5 ==
    (Len(log) = 1 /\ log[1].output.ok /\ Count(1) > 0) =>
        LET P == settings.suites[1].points
            N == Count(1)
            o == Outcomes(log[1].output)
            share == Round2(P, N, log[1].below)
        IN  /\ Len(results.tests) = N
            /\ \A k \in 1..N :
                   /\ results.tests[k].max_score = share
                   /\ results.tests[k].score =
                          IF o[k].value.event = String(Lit.ok) THEN share ELSE F64(0, 100)
            /\ (f64_eq(P, F64(2, 1)) /\ o = <<OkLine, FailedLine>>) =>
                   /\ results.tests[1].score = F64(100, 100)
                   /\ results.tests[1].max_score = F64(100, 100)
                   /\ results.tests[2].score = F64(0, 100)
                   /\ results.tests[2].max_score = F64(100, 100)
            /\ (f64_eq(P, F64(1, 1)) /\ o = <<OkLine, OkLine, OkLine>>) =>
                   \A k \in 1..3 :
                       /\ results.tests[k].score = F64(33, 100)
                       /\ results.tests[k].max_score = F64(33, 100)

\* 0.29 points over a pass and a fail: 0.145 is a half, and the double is
\* below it, so the share is 0.14.
WitC5 ==
    /\ Len(log) = 1
    /\ log[1].output.ok
    /\ log[1].below
    /\ settings.suites[1].points = F64(29, 100)
    /\ Outcomes(log[1].output) = <<OkLine, FailedLine>>
    /\ Len(results.tests) = 2
    /\ results.tests[1].score = F64(14, 100)
    /\ results.tests[2].score = F64(0, 100)
    /\ results.tests[2].max_score = F64(14, 100)

\* C6: with N > 0 outcomes and budget P the max_score values of the suite's
\* tests add up to within 0.01 * N of P.
ThmC6 ==
    (Len(log) = 1 /\ log[1].output.ok /\ Count(1) > 0) =>
        LET P == settings.suites[1].points
            N == Count(1)
        IN  /\ Len(results.tests) = N
            /\ \A k \in 1..N : results.tests[k].max_score.d = 100
            /\ Abs(SumMaxScore(results.tests) * P.d - 100 * P.n) <= N * P.d

\* 1.0 over three tests: 0.99 in all.
WitC6 ==
    /\ Len(log) = 1
    /\ log[1].output.ok
    /\ Count(1) = 3
    /\ f64_eq(settings.suites[1].points, F64(1, 1))
    /\ Len(results.tests) = 3
    /\ SumMaxScore(results.tests) = 99

---------------------------------------------------------------------------
(* Claims checked under SpecFilter. *)

\* C8: filter_test_output gives None exactly when the record's type is not
\* "test" or its event is "started"; any other record gives a test that
\* passed (raw score 1) if its event is exactly "ok" and else failed (0).
ThmC8 ==
    pc = "returned" =>
        /\ ~ret.panic
        /\ ~ret.some <=>
               (arg.type # String(Lit.test) \/ arg.event = String(Lit.started))
        /\ ret.some =>
               ret.test.score =
                   IF arg.event = String(Lit.ok) THEN F64(1, 1) ELSE F64(0, 1)

\* A test record whose event is neither "ok" nor "failed" counts as failed.
WitC8 ==
    /\ pc = "returned"
    /\ arg.type = String(Lit.test)
    /\ arg.event = String(Txt.weird)
    /\ ret.some
    /\ ret.test.score = F64(0, 1)

\* C9: the test's output is empty when it passed, and else the text of the
\* record's stdout member, decoded and without quote characters around it,
\* and empty when stdout is missing or no string.
CexC9 ==
    (pc = "returned" /\ ret.some) =>
        ret.test.output =
            IF arg.event = String(Lit.ok) THEN <<>>
            ELSE IF arg.stdout.t = "str" THEN arg.stdout.s
            ELSE <<>>

---------------------------------------------------------------------------
(* Claims checked under SpecUnescape. *)

IsHex(c) == c \in (48..57) \cup (65..70) \cup (97..102)

\* Whether s holds, from position i on, a backslash with nothing after it or
\* a \u with fewer than four hexadecimal digits after it.
RECURSIVE Malformed(_, _)
Malformed(s, i) ==
    IF i > Len(s) THEN FALSE
    ELSE IF s[i] # Ch.backslash THEN Malformed(s, i + 1)
    ELSE IF i = Len(s) THEN TRUE
    ELSE IF s[i + 1] = Ch.u
    THEN IF i + 5 <= Len(s) /\ \A k \in (i + 2)..(i + 5) : IsHex(s[k])
         THEN Malformed(s, i + 6)
         ELSE TRUE
    ELSE Malformed(s, i + 2)

\* The value of the hexadecimal digit c.
HexValue(c) == IF c <= 57 THEN c - 48 ELSE IF c <= 70 THEN c - 55 ELSE c - 87

\* What a well-formed s decodes to from position i on: \uXXXX is the code
\* point XXXX, \b \f \n \r \t the control characters, \c any other c itself.
RECURSIVE Decoded(_, _)
Decoded(s, i) ==
    IF i > Len(s) THEN <<>>
    ELSE IF s[i] # Ch.backslash THEN <<s[i]>> \o Decoded(s, i + 1)
    ELSE IF s[i + 1] = Ch.u
    THEN <<4096 * HexValue(s[i + 2]) + 256 * HexValue(s[i + 3])
           + 16 * HexValue(s[i + 4]) + HexValue(s[i + 5])>> \o Decoded(s, i + 6)
    ELSE <<CASE s[i + 1] = Ch.b -> Ch.BS
             [] s[i + 1] = Ch.f -> Ch.FF
             [] s[i + 1] = Ch.n -> Ch.LF
             [] s[i + 1] = Ch.r -> Ch.CR
             [] s[i + 1] = Ch.t -> Ch.TAB
             [] OTHER -> s[i + 1]>> \o Decoded(s, i + 2)

====
